---- MODULE Spec2Model ----
(***************************************************************************)
(* Blog-post REST API (src/app.mjs): the /posts listing pipeline            *)
(* (validation, sanitization, category/keyword filtering, pagination) and   *)
(* the /posts/:id lookup, over the shared in-memory collection blogPosts.   *)
(*                                                                          *)
(* JavaScript strings are sequences of one-character strings.  JavaScript   *)
(* numbers are exact rationals n/d in lowest terms, or NaN; the request     *)
(* values below only spell numbers that an IEEE double holds exactly        *)
(* (integers and halves), so rational arithmetic is the code's arithmetic.  *)
(***************************************************************************)
EXTENDS Integers, Sequences, FiniteSets, TLC

\* Largest number of records in the seed collection.
MaxPosts == 3

-----------------------------------------------------------------------------
(* Strings *)

WhiteSpace == {" "}

UpperToLower == [c \in {"A", "B", "C"} |->
                   CASE c = "A" -> "a" [] c = "B" -> "b" [] c = "C" -> "c"]

RECURSIVE TrimStart(_)
TrimStart(s) ==
  IF s # <<>> /\ Head(s) \in WhiteSpace THEN TrimStart(Tail(s)) ELSE s

RECURSIVE TrimEnd(_)
TrimEnd(s) ==
  IF s # <<>> /\ s[Len(s)] \in WhiteSpace
    THEN TrimEnd(SubSeq(s, 1, Len(s) - 1))
    ELSE s

\* String.prototype.trim
trim(s) == TrimEnd(TrimStart(s))

\* String.prototype.toLowerCase
toLowerCase(s) ==
  [i \in 1..Len(s) |-> IF s[i] \in DOMAIN UpperToLower THEN UpperToLower[s[i]] ELSE s[i]]

\* String.prototype.includes
includes(s, sub) ==
  \E i \in 0..(Len(s) - Len(sub)) : SubSeq(s, i + 1, i + Len(sub)) = sub

-----------------------------------------------------------------------------
(* Numbers *)

RECURSIVE GCD(_, _)
GCD(a, b) == IF b = 0 THEN a ELSE GCD(b, a % b)

Abs(n) == IF n < 0 THEN -n ELSE n

NaN == [k |-> "nan", n |-> 0, d |-> 1]

\* The finite number n/d (d > 0), in lowest terms.
Rat(n, d) ==
  LET g == GCD(Abs(n), d)
  IN  [k |-> "fin", n |-> n \div g, d |-> d \div g]

IntNum(n) == Rat(n, 1)

isNaN(x) == x.k = "nan"

\* x < y, x > y on numbers; every comparison with NaN is false.
NumLt(x, y) == ~isNaN(x) /\ ~isNaN(y) /\ x.n * y.d < y.n * x.d
NumGt(x, y) == NumLt(y, x)

NumAdd(x, y) ==
  IF isNaN(x) \/ isNaN(y) THEN NaN ELSE Rat(x.n * y.d + y.n * x.d, x.d * y.d)
NumSub(x, y) ==
  IF isNaN(x) \/ isNaN(y) THEN NaN ELSE Rat(x.n * y.d - y.n * x.d, x.d * y.d)
NumMul(x, y) ==
  IF isNaN(x) \/ isNaN(y) THEN NaN ELSE Rat(x.n * y.n, x.d * y.d)

\* Math.max / Math.min of two numbers (NaN is contagious).
MathMax(x, y) == IF isNaN(x) \/ isNaN(y) THEN NaN ELSE IF NumLt(x, y) THEN y ELSE x
MathMin(x, y) == IF isNaN(x) \/ isNaN(y) THEN NaN ELSE IF NumLt(y, x) THEN y ELSE x

\* Floor of the rational n/d, d > 0 (\div rounds toward minus infinity).
FloorDiv(n, d) == n \div d

\* Variant: Math.floor in place of Math.ceil.
MathCeilDiv_Floor(count, x) == FloorDiv(count * x.d, x.n)

\* Math.ceil of (count / x) for a number x > 0 and an integer count.
MathCeilDiv(count, x) == -FloorDiv(-(count * x.d), x.n)

\* ToIntegerOrInfinity: truncation toward zero; NaN gives 0.
ToInteger(x) ==
  IF isNaN(x) THEN 0
  ELSE IF x.n >= 0 THEN FloorDiv(x.n, x.d) ELSE -FloorDiv(-x.n, x.d)

Digits == {"0", "1", "2", "3", "4", "5", "6", "7", "8", "9"}

DigitVal == [c \in Digits |->
  CASE c = "0" -> 0 [] c = "1" -> 1 [] c = "2" -> 2 [] c = "3" -> 3
    [] c = "4" -> 4 [] c = "5" -> 5 [] c = "6" -> 6 [] c = "7" -> 7
    [] c = "8" -> 8 [] c = "9" -> 9]

AllDigits(s) == \A i \in 1..Len(s) : s[i] \in Digits

RECURSIVE DigitsValue(_)
DigitsValue(s) ==
  IF s = <<>> THEN 0
  ELSE 10 * DigitsValue(SubSeq(s, 1, Len(s) - 1)) + DigitVal[s[Len(s)]]

RECURSIVE Pow10(_)
Pow10(k) == IF k = 0 THEN 1 ELSE 10 * Pow10(k - 1)

\* An unsigned decimal literal: digits, optionally with one "." ; at least
\* one digit in all.  Anything else is NaN.
StrUnsignedDecimalLiteral(t) ==
  LET dots == {i \in 1..Len(t) : t[i] = "."}
  IN  IF dots = {}
        THEN IF Len(t) > 0 /\ AllDigits(t) THEN IntNum(DigitsValue(t)) ELSE NaN
        ELSE LET p  == CHOOSE i \in dots : \A j \in dots : i <= j
                 ip == SubSeq(t, 1, p - 1)
                 fp == SubSeq(t, p + 1, Len(t))
             IN  IF AllDigits(ip) /\ AllDigits(fp) /\ Len(ip) + Len(fp) > 0
                   THEN Rat(DigitsValue(ip) * Pow10(Len(fp)) + DigitsValue(fp),
                            Pow10(Len(fp)))
                   ELSE NaN

\* StringToNumber: white space is trimmed, the empty string is 0, one
\* leading sign is allowed.  (Over the alphabet of the request values:
\* digits, ".", "-", "+", " ", "," and the letters a, b, c.)
StringToNumber(s) ==
  LET t == trim(s)
  IN  IF t = <<>> THEN IntNum(0)
      ELSE IF Head(t) = "-"
        THEN LET u == StrUnsignedDecimalLiteral(Tail(t))
             IN  IF isNaN(u) THEN NaN ELSE Rat(-u.n, u.d)
      ELSE IF Head(t) = "+" THEN StrUnsignedDecimalLiteral(Tail(t))
      ELSE StrUnsignedDecimalLiteral(t)

-----------------------------------------------------------------------------
(* Request values: what req.query / req.params hold *)

undefined == [t |-> "undefined", s |-> <<>>]
Str(s)    == [t |-> "string", s |-> s]
\* An array value, kept as the string its elements join to (Array.toString).
Arr(s)    == [t |-> "array", s |-> s]

\* ToBoolean
Truthy(v) ==
  CASE v.t = "undefined" -> FALSE
    [] v.t = "string"    -> v.s # <<>>
    [] v.t = "array"     -> TRUE

\* Number(v)
Number(v) == IF v.t = "undefined" THEN NaN ELSE StringToNumber(v.s)

\* Number(v) || dflt
NumberOr(v, dflt) ==
  LET x == Number(v) IN IF isNaN(x) \/ x.n = 0 THEN dflt ELSE x

-----------------------------------------------------------------------------
(* Program constants *)

\* Upper bound of page and limit in the first check of GET /posts.
MaxPaginationValue == 1000000
\* Largest limit validatePaginationParams accepts.
MaxLimit == 100
\* Limit used when the request has none.
DefaultLimit == 6
\* Largest id GET /posts/:id accepts.
MaxPostId == 1000000

-----------------------------------------------------------------------------
(* Array methods *)

Min(a, b) == IF a < b THEN a ELSE b
Max(a, b) == IF a < b THEN b ELSE a

\* Variant: the element at index end is taken too.
slice_EndInclusive(arr, start, end) ==
  LET len   == Len(arr)
      rs    == ToInteger(start)
      k     == IF rs < 0 THEN Max(len + rs, 0) ELSE Min(rs, len)
      re    == ToInteger(end) + 1
      final == IF re < 0 THEN Max(len + re, 0) ELSE Min(re, len)
  IN  IF k < final THEN SubSeq(arr, k + 1, final) ELSE <<>>

\* Array.prototype.slice(start, end): both ends go through
\* ToIntegerOrInfinity and are clamped to the array; a new array is built.
slice(arr, start, end) ==
  LET len   == Len(arr)
      rs    == ToInteger(start)
      k     == IF rs < 0 THEN Max(len + rs, 0) ELSE Min(rs, len)
      re    == ToInteger(end)
      final == IF re < 0 THEN Max(len + re, 0) ELSE Min(re, len)
  IN  IF k < final THEN SubSeq(arr, k + 1, final) ELSE <<>>

-----------------------------------------------------------------------------
(* GET /posts *)

\* Variant: the lower bound of both checks is 0 instead of 1.
validatePaginationParams_ZeroOk(page, limit) ==
  LET pageErrors ==
        IF page # undefined
          THEN (IF isNaN(Number(page)) \/ NumLt(Number(page), IntNum(0))
                  THEN <<"Page must be a positive number">> ELSE <<>>)
               \o
               (IF NumGt(Number(page), IntNum(MaxPaginationValue))
                  THEN <<"Page number too large">> ELSE <<>>)
          ELSE <<>>
      limitErrors ==
        IF limit # undefined
          THEN (IF isNaN(Number(limit)) \/ NumLt(Number(limit), IntNum(0))
                  THEN <<"Limit must be a positive number">> ELSE <<>>)
               \o
               (IF NumGt(Number(limit), IntNum(MaxLimit))
                  THEN <<"Limit cannot exceed 100">> ELSE <<>>)
          ELSE <<>>
  IN  pageErrors \o limitErrors

\* Variant: the limit is only validated when the page raised no error.
validatePaginationParams_FirstOnly(page, limit) ==
  LET pageErrors ==
        IF page # undefined
          THEN (IF isNaN(Number(page)) \/ NumLt(Number(page), IntNum(1))
                  THEN <<"Page must be a positive number">> ELSE <<>>)
               \o
               (IF NumGt(Number(page), IntNum(MaxPaginationValue))
                  THEN <<"Page number too large">> ELSE <<>>)
          ELSE <<>>
      limitErrors ==
        IF limit # undefined /\ pageErrors = <<>>
          THEN (IF isNaN(Number(limit)) \/ NumLt(Number(limit), IntNum(1))
                  THEN <<"Limit must be a positive number">> ELSE <<>>)
               \o
               (IF NumGt(Number(limit), IntNum(MaxLimit))
                  THEN <<"Limit cannot exceed 100">> ELSE <<>>)
          ELSE <<>>
  IN  pageErrors \o limitErrors

validatePaginationParams(page, limit) ==
  LET pageErrors ==
        IF page # undefined
          THEN (IF isNaN(Number(page)) \/ NumLt(Number(page), IntNum(1))
                  THEN <<"Page must be a positive number">> ELSE <<>>)
               \o
               (IF NumGt(Number(page), IntNum(MaxPaginationValue))
                  THEN <<"Page number too large">> ELSE <<>>)
          ELSE <<>>
      limitErrors ==
        IF limit # undefined
          THEN (IF isNaN(Number(limit)) \/ NumLt(Number(limit), IntNum(1))
                  THEN <<"Limit must be a positive number">> ELSE <<>>)
               \o
               (IF NumGt(Number(limit), IntNum(MaxLimit))
                  THEN <<"Limit cannot exceed 100">> ELSE <<>>)
          ELSE <<>>
  IN  pageErrors \o limitErrors

\* sanitizeString: '' for anything that is not a string.
sanitizeString_CaseSensitive(v) == IF v.t # "string" THEN <<>> ELSE trim(v.s)

sanitizeString(v) == IF v.t # "string" THEN <<>> ELSE toLowerCase(trim(v.s))

\* page && !isNaN(Number(page)) && Number(page) > 1000000
TooLarge(v) ==
  Truthy(v) /\ ~isNaN(Number(v)) /\ NumGt(Number(v), IntNum(MaxPaginationValue))

\* Math.max(1, Number(page) || 1)
NumPage(page) == MathMax(IntNum(1), NumberOr(page, IntNum(1)))

\* Variant: the default page size is 10.
NumLimit_DefaultTen(limit) ==
  MathMax(IntNum(1), MathMin(IntNum(MaxLimit), NumberOr(limit, IntNum(10))))

\* Math.max(1, Math.min(100, Number(limit) || 6))
NumLimit(limit) ==
  MathMax(IntNum(1), MathMin(IntNum(MaxLimit), NumberOr(limit, IntNum(DefaultLimit))))

\* A null entry of the collection, and a collection that holds one.
Null == [null |-> TRUE]
IsNull(post) == "null" \in DOMAIN post
Malformed(posts) == \E i \in 1..Len(posts) : IsNull(posts[i])

\* Variant: the stored category is lower-cased but not trimmed.
CategoryFiltered_StoredUntrimmed(posts, category) ==
  IF Truthy(category) /\ sanitizeString(category) # <<>>
    THEN SelectSeq(posts,
           LAMBDA post : toLowerCase(post.category) = sanitizeString(category))
    ELSE posts

\* The category filter of the handler.
CategoryFiltered(posts, category) ==
  IF Truthy(category) /\ sanitizeString(category) # <<>>
    THEN SelectSeq(posts,
           LAMBDA post : sanitizeString(Str(post.category)) = sanitizeString(category))
    ELSE posts

\* Variant: the content of a post is not searched.
KeywordMatches_NoContent(post, sanitizedKeyword) ==
  \/ includes(sanitizeString(Str(post.title)), sanitizedKeyword)
  \/ includes(sanitizeString(Str(post.description)), sanitizedKeyword)
  \/ includes(sanitizeString(Str(post.category)), sanitizedKeyword)

\* The predicate of the keyword filter.
KeywordMatches(post, sanitizedKeyword) ==
  \/ includes(sanitizeString(Str(post.title)), sanitizedKeyword)
  \/ includes(sanitizeString(Str(post.description)), sanitizedKeyword)
  \/ includes(sanitizeString(Str(post.content)), sanitizedKeyword)
  \/ includes(sanitizeString(Str(post.category)), sanitizedKeyword)

\* Variant: a keyword that is too short is ignored instead of rejected.
KeywordStep_Lenient(posts, keyword) ==
  IF ~Truthy(keyword) THEN [kind |-> "ok", posts |-> posts]
  ELSE LET sanitizedKeyword == sanitizeString(keyword)
       IN  IF sanitizedKeyword # <<>> /\ Len(sanitizedKeyword) >= 2
             THEN IF Malformed(posts)
                    THEN [kind |-> "throw", posts |-> posts,
                          message |-> "Cannot read properties of null (reading 'title')"]
                  ELSE [kind  |-> "ok",
                        posts |-> SelectSeq(posts,
                               LAMBDA post : KeywordMatches(post, sanitizedKeyword))]
           ELSE IF keyword.t # "string"
             THEN [kind |-> "throw", posts |-> posts,
                   message |-> "keyword.trim is not a function"]
           ELSE [kind |-> "ok", posts |-> posts]

\* Variant: a keyword that is not a string is answered like a short one.
KeywordStep_NonStringShort(posts, keyword) ==
  IF ~Truthy(keyword) THEN [kind |-> "ok", posts |-> posts]
  ELSE LET sanitizedKeyword == sanitizeString(keyword)
       IN  IF sanitizedKeyword # <<>> /\ Len(sanitizedKeyword) >= 2
             THEN IF Malformed(posts)
                    THEN [kind |-> "throw", posts |-> posts,
                          message |-> "Cannot read properties of null (reading 'title')"]
                  ELSE [kind  |-> "ok",
                        posts |-> SelectSeq(posts,
                               LAMBDA post : KeywordMatches(post, sanitizedKeyword))]
           ELSE IF keyword.t # "string" \/ Len(trim(keyword.s)) < 2
             THEN [kind |-> "short", posts |-> posts]
           ELSE [kind |-> "ok", posts |-> posts]

\* The keyword step of the handler: the filtered posts, a 400 answer, or a
\* thrown TypeError (keyword.trim is not a function, for a non-string).
KeywordStep(posts, keyword) ==
  IF ~Truthy(keyword) THEN [kind |-> "ok", posts |-> posts]
  ELSE LET sanitizedKeyword == sanitizeString(keyword)
       IN  IF sanitizedKeyword # <<>> /\ Len(sanitizedKeyword) >= 2
             THEN IF Malformed(posts)
                    THEN [kind |-> "throw", posts |-> posts,
                          message |-> "Cannot read properties of null (reading 'title')"]
                  ELSE [kind  |-> "ok",
                        posts |-> SelectSeq(posts,
                               LAMBDA post : KeywordMatches(post, sanitizedKeyword))]
           ELSE IF keyword.t # "string"
             THEN [kind |-> "throw", posts |-> posts,
                   message |-> "keyword.trim is not a function"]
           ELSE IF Len(trim(keyword.s)) < 2
             THEN [kind |-> "short", posts |-> posts]
           ELSE [kind |-> "ok", posts |-> posts]

\* The two filters of the handler in their order: the filtered posts, a 400
\* answer, or the TypeError of the first filter that reads a null entry.
FilterStep(posts, category, keyword) ==
  IF Truthy(category) /\ sanitizeString(category) # <<>> /\ Malformed(posts)
    THEN [kind |-> "throw", posts |-> posts,
          message |-> "Cannot read properties of null (reading 'category')"]
    ELSE KeywordStep(CategoryFiltered(posts, category), keyword)

NoFields == [f \in {} |-> f]

\* Variant: endIndex <= length.
hasNextPage_Lte(endIndex, length) == ~NumGt(endIndex, IntNum(length))

\* hasNextPage: endIndex < filteredPosts.length
hasNextPage(endIndex, length) == NumLt(endIndex, IntNum(length))

\* The results object built from the filtered posts.
PaginationResult(filteredPosts, numPage, numLimit) ==
  LET startIndex      == NumMul(NumSub(numPage, IntNum(1)), numLimit)
      endIndex        == NumAdd(startIndex, numLimit)
      totalPages      == MathCeilDiv(Len(filteredPosts), numLimit)
      hasNext         == hasNextPage(endIndex, Len(filteredPosts))
      hasPreviousPage == NumGt(startIndex, IntNum(0))
  IN  [totalPosts      |-> Len(filteredPosts),
       totalPages      |-> totalPages,
       currentPage     |-> numPage,
       limit           |-> numLimit,
       posts           |-> slice(filteredPosts, startIndex, endIndex),
       hasNextPage     |-> hasNext,
       hasPreviousPage |-> hasPreviousPage]
      @@ (IF hasNext
            THEN [nextPage |-> NumAdd(numPage, IntNum(1))] ELSE NoFields)
      @@ (IF hasPreviousPage
            THEN [previousPage |-> NumSub(numPage, IntNum(1))] ELSE NoFields)

\* Variant: the exception's message is sent unless NODE_ENV is production.
InternalError_UnlessProduction(env, message) ==
  [status |-> 500,
   body   |-> [error   |-> "Internal server error",
               message |-> IF env # "production"
                             THEN message ELSE "Something went wrong"]]

\* The 500 answer of the catch blocks, for an exception with this message.
InternalError(env, message) ==
  [status |-> 500,
   body   |-> [error   |-> "Internal server error",
               message |-> IF env = "development"
                             THEN message ELSE "Something went wrong"]]

\* Variant: oversized values answered with status 500.
TooLargeResponse_500 ==
  [status |-> 500, body |-> [error |-> "Pagination values too large"]]

\* The answer to an oversized page or limit.
TooLargeResponse ==
  [status |-> 400, body |-> [error |-> "Pagination values too large"]]

\* Variant: validatePaginationParams runs before the check of oversized
\* values.
PostsHandler_ValidateFirst(posts, env, page, limit, category, keyword) ==
  LET validationErrors == validatePaginationParams(page, limit)
  IN  IF Len(validationErrors) > 0
        THEN [status |-> 400,
              body   |-> [error   |-> "Invalid pagination parameters",
                          details |-> validationErrors]]
      ELSE IF TooLarge(page) \/ TooLarge(limit) THEN TooLargeResponse
      ELSE LET kw == FilterStep(posts, category, keyword)
           IN  CASE kw.kind = "throw" -> InternalError(env, kw.message)
                 [] kw.kind = "short" ->
                      [status |-> 400,
                       body   |-> [error |-> "Keyword must be at least 2 characters long"]]
                 [] kw.kind = "ok" ->
                      [status |-> 200,
                       body   |-> PaginationResult(kw.posts, NumPage(page),
                                                   NumLimit(limit))]

\* Variant: the keyword filter runs on the whole collection, not on the
\* result of the category filter.
PostsHandler_KeywordOnAll(posts, env, page, limit, category, keyword) ==
  IF TooLarge(page) THEN TooLargeResponse
  ELSE IF TooLarge(limit) THEN TooLargeResponse
  ELSE LET validationErrors == validatePaginationParams(page, limit)
       IN  IF Len(validationErrors) > 0
             THEN [status |-> 400,
                   body   |-> [error   |-> "Invalid pagination parameters",
                               details |-> validationErrors]]
           ELSE LET kw == IF Truthy(keyword)
                            THEN KeywordStep(posts, keyword)
                            ELSE FilterStep(posts, category, keyword)
                IN  CASE kw.kind = "throw" -> InternalError(env, kw.message)
                      [] kw.kind = "short" ->
                           [status |-> 400,
                            body   |-> [error |-> "Keyword must be at least 2 characters long"]]
                      [] kw.kind = "ok" ->
                           [status |-> 200,
                            body   |-> PaginationResult(kw.posts, NumPage(page),
                                                        NumLimit(limit))]

\* The answer of app.get("/posts").
PostsHandler(posts, env, page, limit, category, keyword) ==
  IF TooLarge(page) THEN TooLargeResponse
  ELSE IF TooLarge(limit) THEN TooLargeResponse
  ELSE LET validationErrors == validatePaginationParams(page, limit)
       IN  IF Len(validationErrors) > 0
             THEN [status |-> 400,
                   body   |-> [error   |-> "Invalid pagination parameters",
                               details |-> validationErrors]]
           ELSE LET kw == FilterStep(posts, category, keyword)
                IN  CASE kw.kind = "throw" -> InternalError(env, kw.message)
                      [] kw.kind = "short" ->
                           [status |-> 400,
                            body   |-> [error |-> "Keyword must be at least 2 characters long"]]
                      [] kw.kind = "ok" ->
                           [status |-> 200,
                            body   |-> PaginationResult(kw.posts, NumPage(page),
                                                        NumLimit(limit))]

\* Variant: the filters are applied to the shared array itself.
blogPostsAfterPosts_InPlace(posts, filteredPosts) == filteredPosts

\* The shared array after app.get("/posts") ran: the handler works on the
\* copy [...blogPosts], and filter and slice build new arrays.
blogPostsAfterPosts(posts, filteredPosts) == posts

-----------------------------------------------------------------------------
(* GET /posts/:id *)

RECURSIVE DigitPrefix(_)
DigitPrefix(s) ==
  IF s # <<>> /\ Head(s) \in Digits THEN <<Head(s)>> \o DigitPrefix(Tail(s)) ELSE <<>>

\* parseInt(s, 10): leading white space is skipped, one sign is allowed,
\* then the longest run of digits is read; NaN when there is none.
parseInt(s) ==
  LET t    == TrimStart(s)
      neg  == t # <<>> /\ Head(t) = "-"
      body == IF t # <<>> /\ Head(t) \in {"-", "+"} THEN Tail(t) ELSE t
      ds   == DigitPrefix(body)
  IN  IF ds = <<>> THEN NaN
      ELSE IF neg THEN IntNum(-DigitsValue(ds)) ELSE IntNum(DigitsValue(ds))

\* Variant: the record is taken at the position postId of the array.
FindIndex_ByPosition(posts, postId) ==
  IF postId.k = "fin" /\ postId.d = 1 /\ postId.n \in 1..Len(posts)
    THEN postId.n ELSE 0

\* blogPosts.find((post) => post.id === postId): the index of the first
\* match, 0 when there is none.
FindIndex(posts, postId) ==
  LET hits == {i \in 1..Len(posts) :
                 ~IsNull(posts[i]) /\ IntNum(posts[i].id) = postId}
  IN  IF hits = {} THEN 0 ELSE CHOOSE i \in hits : \A j \in hits : i <= j

\* find reads post.id of a null entry before it meets a match: TypeError.
FindThrows(posts, postId) ==
  \E i \in 1..Len(posts) :
    /\ IsNull(posts[i])
    /\ \A j \in 1..(i - 1) :
         ~IsNull(posts[j]) /\ IntNum(posts[j].id) # postId

\* The answer of app.get("/posts/:id"); requestedAt is the clock of the
\* boundary, one opaque value here.
PostByIdHandler(posts, env, id) ==
  IF ~Truthy(id) \/ isNaN(Number(id))
    THEN [status |-> 400,
          body   |-> [error   |-> "Invalid post ID",
                      message |-> "Post ID must be a valid number"]]
  ELSE LET postId == parseInt(id.s)
       IN  IF NumLt(postId, IntNum(1)) \/ NumGt(postId, IntNum(MaxPostId))
             THEN [status |-> 400,
                   body   |-> [error   |-> "Invalid post ID",
                               message |-> "Post ID out of valid range"]]
           ELSE IF FindThrows(posts, postId)
             THEN InternalError(env, "Cannot read properties of null (reading 'id')")
           ELSE LET i == FindIndex(posts, postId)
                IN  IF i = 0
                      THEN [status |-> 404,
                            body   |-> [error       |-> "Blog post not found",
                                        requestedId |-> postId]]
                      ELSE [status |-> 200,
                            body   |-> posts[i] @@ [requestedAt |-> "now"]]

-----------------------------------------------------------------------------
(* The refactored /posts handler *)

\* filterByCategory
filterByCategory(posts, category) ==
  IF ~Truthy(category) THEN [kind |-> "ok", posts |-> posts]
  ELSE IF sanitizeString(category) = <<>> THEN [kind |-> "ok", posts |-> posts]
  ELSE IF Malformed(posts)
    THEN [kind |-> "throw", posts |-> posts,
          message |-> "Cannot read properties of null (reading 'category')"]
  ELSE [kind  |-> "ok",
        posts |-> SelectSeq(posts,
                    LAMBDA post : sanitizeString(Str(post.category))
                                    = sanitizeString(category))]

\* filterByKeyword: the filtered posts, the text of the error, or a thrown
\* TypeError (keyword.trim is not a function, for a non-string).
filterByKeyword(posts, keyword) ==
  IF ~Truthy(keyword) THEN [kind |-> "ok", posts |-> posts]
  ELSE IF keyword.t # "string"
    THEN [kind |-> "throw", posts |-> posts,
          message |-> "keyword.trim is not a function"]
  ELSE LET trimmedKeyword   == trim(keyword.s)
           sanitizedKeyword == sanitizeString(keyword)
       IN  IF Len(trimmedKeyword) > 0 /\ Len(trimmedKeyword) < 2
             THEN [kind |-> "short", posts |-> posts]
           ELSE IF sanitizedKeyword = <<>> \/ Len(sanitizedKeyword) < 2
             THEN [kind |-> "ok", posts |-> posts]
           ELSE IF Malformed(posts)
             THEN [kind |-> "throw", posts |-> posts,
                   message |-> "Cannot read properties of null (reading 'title')"]
           ELSE [kind  |-> "ok",
                 posts |-> SelectSeq(posts,
                             LAMBDA post : KeywordMatches(post, sanitizedKeyword))]

\* createPaginationResult
createPaginationResult(posts, numPage, numLimit) ==
  LET startIndex == NumMul(NumSub(numPage, IntNum(1)), numLimit)
      endIndex   == NumAdd(startIndex, numLimit)
      totalPages == MathCeilDiv(Len(posts), numLimit)
      hasNext    == NumLt(endIndex, IntNum(Len(posts)))
      hasPrev    == NumGt(startIndex, IntNum(0))
  IN  [totalPosts      |-> Len(posts),
       totalPages      |-> totalPages,
       currentPage     |-> numPage,
       limit           |-> numLimit,
       posts           |-> slice(posts, startIndex, endIndex),
       hasNextPage     |-> hasNext,
       hasPreviousPage |-> hasPrev]
      @@ (IF hasNext THEN [nextPage |-> NumAdd(numPage, IntNum(1))] ELSE NoFields)
      @@ (IF hasPrev THEN [previousPage |-> NumSub(numPage, IntNum(1))] ELSE NoFields)

\* The answer of app.get("/posts") of the refactored app.
RefactoredPostsHandler(posts, env, page, limit, category, keyword) ==
  IF TooLarge(page) THEN TooLargeResponse
  ELSE IF TooLarge(limit) THEN TooLargeResponse
  ELSE LET validationErrors == validatePaginationParams(page, limit)
       IN  IF Len(validationErrors) > 0
             THEN [status |-> 400,
                   body   |-> [error   |-> "Invalid pagination parameters",
                               details |-> validationErrors]]
           ELSE LET byCategory == filterByCategory(posts, category)
                    keywordResult ==
                      IF byCategory.kind = "throw" THEN byCategory
                      ELSE filterByKeyword(byCategory.posts, keyword)
                IN  CASE keywordResult.kind = "throw" ->
                           InternalError(env, keywordResult.message)
                      [] keywordResult.kind = "short" ->
                           [status |-> 400,
                            body   |-> [error |-> "Keyword must be at least 2 characters long"]]
                      [] keywordResult.kind = "ok" ->
                           [status |-> 200,
                            body   |-> createPaginationResult(keywordResult.posts,
                                         NumPage(page), NumLimit(limit))]

-----------------------------------------------------------------------------
(* The /posts handler of the earlier revision *)

\* req.query.category || "", req.query.keyword || ""
OrEmpty(v) == IF Truthy(v) THEN v ELSE Str(<<>>)

\* Variant: numeric values below 1 are invalid too.
EarlierInvalid_BelowOne(page, limit) ==
  \/ Truthy(page) /\ (isNaN(Number(page)) \/ NumLt(Number(page), IntNum(1)))
  \/ Truthy(limit) /\ (isNaN(Number(limit)) \/ NumLt(Number(limit), IntNum(1)))

\* page && isNaN(Number(page)) || limit && isNaN(Number(limit))
EarlierInvalid(page, limit) ==
  \/ Truthy(page) /\ isNaN(Number(page))
  \/ Truthy(limit) /\ isNaN(Number(limit))

\* The two filters: toLowerCase on both sides, no trim, no minimal length.
\* The callbacks run once per record, so a category or keyword that is not
\* a string throws only when there is a record to test.
EarlierFilterStep(posts, category, keyword) ==
  IF Truthy(category) /\ category.t # "string" /\ posts # <<>>
    THEN [kind |-> "throw", posts |-> posts,
          message |-> "category.toLowerCase is not a function"]
  ELSE LET byCategory ==
             IF Truthy(category) /\ category.t = "string"
               THEN SelectSeq(posts,
                      LAMBDA post : toLowerCase(post.category) = toLowerCase(category.s))
               ELSE posts
       IN  IF ~Truthy(keyword) THEN [kind |-> "ok", posts |-> byCategory]
           ELSE IF keyword.t # "string"
             THEN IF byCategory # <<>>
                    THEN [kind |-> "throw", posts |-> posts,
                          message |-> "keyword.toLowerCase is not a function"]
                    ELSE [kind |-> "ok", posts |-> byCategory]
           ELSE [kind  |-> "ok",
                 posts |-> SelectSeq(byCategory,
                   LAMBDA post :
                     \/ includes(toLowerCase(post.title), toLowerCase(keyword.s))
                     \/ includes(toLowerCase(post.description), toLowerCase(keyword.s))
                     \/ includes(toLowerCase(post.content), toLowerCase(keyword.s))
                     \/ includes(toLowerCase(post.category), toLowerCase(keyword.s)))]

\* The answer of app.get("/posts") of the earlier revision.
EarlierPostsHandler(posts, page, limit, category, keyword) ==
  IF EarlierInvalid(page, limit)
    THEN [status |-> 400, body |-> [message |-> "Invalid pagination parameters"]]
  ELSE LET numPage   == NumberOr(page, IntNum(1))
           numLimit  == NumberOr(limit, IntNum(DefaultLimit))
           safePage  == MathMax(IntNum(1), numPage)
           safeLimit == MathMax(IntNum(1), MathMin(IntNum(MaxLimit), numLimit))
       IN  IF NumGt(safePage, IntNum(MaxPaginationValue))
              \/ NumGt(safeLimit, IntNum(MaxPaginationValue))
             THEN [status |-> 500, body |-> [message |-> "Pagination values too large"]]
           ELSE LET f == EarlierFilterStep(posts, OrEmpty(category), OrEmpty(keyword))
                    startIndex == NumMul(NumSub(safePage, IntNum(1)), safeLimit)
                    endIndex   == NumAdd(startIndex, safeLimit)
                IN  IF f.kind = "throw"
                      THEN [status |-> 500, body |-> [message |-> f.message]]
                    ELSE [status |-> 200,
                          body   |->
                            [totalPosts  |-> Len(f.posts),
                             totalPages  |-> MathCeilDiv(Len(f.posts), safeLimit),
                             currentPage |-> safePage,
                             limit       |-> safeLimit,
                             posts       |-> slice(f.posts, startIndex, endIndex)]
                            @@ (IF NumLt(endIndex, IntNum(Len(f.posts)))
                                  THEN [nextPage |-> NumAdd(safePage, IntNum(1))]
                                  ELSE NoFields)
                            @@ (IF NumGt(startIndex, IntNum(0))
                                  THEN [previousPage |-> NumSub(safePage, IntNum(1))]
                                  ELSE NoFields)]

-----------------------------------------------------------------------------
(* The middleware around the routes *)

\* The origin every test of the suite sends.  An origin (a URL) is one
\* symbol of a header or of ALLOWED_ORIGINS; "," is the separator symbol.
DefaultOrigin == <<"http://localhost:3000">>

\* String.prototype.split(','): the pieces between the separators; the
\* empty string gives one empty piece.
Split(s) ==
  LET F[i \in 0..Len(s)] ==
        IF i = 0 THEN << <<>> >>
        ELSE IF s[i] = ","
          THEN Append(F[i - 1], <<>>)
          ELSE [F[i - 1] EXCEPT ![Len(F[i - 1])] = Append(@, s[i])]
  IN  F[Len(s)]

\* process.env.ALLOWED_ORIGINS?.split(',') || ['http://localhost:3000']
AllowedOrigins(allowed) ==
  IF allowed.t = "undefined" THEN <<DefaultOrigin>> ELSE Split(allowed.s)

\* Variant: every origin is let through.
CorsAllows_Any(allowed, origin) == TRUE

\* corsOptions.origin: TRUE for callback(null, true), FALSE for
\* callback(new Error('Not allowed by CORS')).
CorsAllows(allowed, origin) ==
  IF ~Truthy(origin) THEN TRUE
  ELSE \E i \in 1..Len(AllowedOrigins(allowed)) :
         AllowedOrigins(allowed)[i] = origin.s

\* The global error handler, for an error with this message.
GlobalErrorHandler(env, message) ==
  IF message = "Not allowed by CORS"
    THEN [status |-> 403,
          body   |-> [error |-> "CORS error", message |-> "Origin not allowed"]]
    ELSE [status |-> 500,
          body   |-> [error   |-> "Internal server error",
                      message |-> IF env = "development"
                                    THEN message ELSE "Something went wrong"]]

-----------------------------------------------------------------------------
(* The seed collection and the requests *)

\* Records the seed collection is drawn from.  Each of the four fields is
\* the only one to hold "ab" in one record; categories differ in case and
\* in surrounding white space.
PostPool ==
  { [id |-> 1, title |-> <<"A", "b">>, description |-> <<"c", "c">>,
     content |-> <<"c", "c">>, category |-> <<"A", "a">>],
    [id |-> 2, title |-> <<"c", "c">>, description |-> <<"a", "B">>,
     content |-> <<"c", "c">>, category |-> <<" ", "b", "b">>],
    [id |-> 3, title |-> <<"c", "c">>, description |-> <<"c", "c">>,
     content |-> <<"c", "A", "B">>, category |-> <<"a", "a">>],
    [id |-> 4, title |-> <<"c", "a">>, description |-> <<"c", "c">>,
     content |-> <<"c", "c">>, category |-> <<"a", "b">>] }

\* The orders the records are stored in: by ascending id, and one order
\* that is not sorted.
BaseOrders == { <<1, 2, 3, 4>>, <<3, 1, 4, 2>> }

\* The records of a base order at the positions keep, in that order.
Stored(order, keep) ==
  LET F[i \in 0..Len(order)] ==
        IF i = 0 THEN <<>>
        ELSE IF i \in keep
          THEN Append(F[i - 1], CHOOSE p \in PostPool : p.id = order[i])
          ELSE F[i - 1]
  IN  F[Len(order)]

\* A collection with one record more than the default page size: the pool
\* by ascending id, then copies of its first records under the next ids.
LongCollection ==
  [i \in 1..(DefaultLimit + 1) |->
     IF i <= 4 THEN CHOOSE p \in PostPool : p.id = i
     ELSE [(CHOOSE p \in PostPool : p.id = i - 4) EXCEPT !.id = i]]

\* The collections: at most MaxPosts records of the pool, each at most once
\* (ids are unique), in one of the base orders; and the long collection.
Collections ==
  { Stored(order, keep) :
      order \in BaseOrders,
      keep \in { k \in SUBSET (1..4) : Cardinality(k) <= MaxPosts } }
  \cup { LongCollection }

PageValues ==
  { undefined, Str(<<>>), Str(<<"-", "1">>), Str(<<"a", "b">>),
    Str(<<"1">>), Str(<<"2">>), Str(<<"1", ".", "5">>),
    Str(<<"1", "0", "0", "0", "0", "0", "0">>),
    Str(<<"1", "0", "0", "0", "0", "0", "1">>) }

LimitValues ==
  { undefined, Str(<<"0">>), Str(<<"a">>),
    Str(<<"1">>), Str(<<"2">>), Str(<<"1", ".", "5">>),
    Str(<<"1", "0", "0">>), Str(<<"1", "0", "1">>),
    Str(<<"2", "0", "0", "0", "0", "0", "0">>) }

CategoryValues ==
  { undefined, Str(<<>>), Str(<<" ">>), Str(<<" ", "A", "A">>),
    Str(<<"B", "b">>), Str(<<"c", "c">>) }

KeywordValues ==
  { undefined, Str(<<>>), Str(<<" ">>), Str(<<"a">>),
    Str(<<" ", "a", "B">>), Str(<<"b", "b">>) }

IdValues ==
  { Str(<<"1">>), Str(<<"4">>), Str(<<"0">>), Str(<<"-", "1">>),
    Str(<<"a", "b">>), Str(<<"1", ".", "5">>), Str(<<".", "5">>),
    Str(<<"-", ".", "5">>), Str(<<" ">>),
    Str(<<"1", "0", "0", "0", "0", "0", "0">>),
    Str(<<"1", "0", "0", "0", "0", "0", "1">>) }

\* NODE_ENV as the Dockerfile sets it.
EnvValues == {"production"}

\* The Origin header of the requests: the default allowed origin.
OriginValues == { Str(DefaultOrigin) }

-----------------------------------------------------------------------------
(* The server *)

VARIABLES
  blogPosts,        \* the shared collection
  NODE_ENV,         \* process.env.NODE_ENV
  ALLOWED_ORIGINS,  \* process.env.ALLOWED_ORIGINS
  phase,            \* "idle", or "responded" while an answer is being sent
  req,              \* the request being answered
  res,              \* its answer
  clients,          \* the requests of clients that overlap in time
  now,              \* the clock, in milliseconds
  rateLimit         \* the rate limiter's record of the client

vars == <<blogPosts, NODE_ENV, ALLOWED_ORIGINS, phase, req, res,
          clients, now, rateLimit>>

config  == <<NODE_ENV, ALLOWED_ORIGINS>>
limiter == <<now, rateLimit>>

NoReq == [route |-> "none", app |-> "hardened",
          origin |-> undefined, json |-> "none",
          page |-> undefined, limit |-> undefined,
          category |-> undefined, keyword |-> undefined, id |-> undefined]
NoRes == [status |-> 0, body |-> NoFields]

\* No overlapping client, and a limiter that has seen no request.
NoClients == [c \in {} |-> c]
StartTime == 1000000
NoHits    == [totalHits |-> 0, resetTime |-> 0]

Init ==
  /\ blogPosts \in Collections
  /\ NODE_ENV \in EnvValues
  /\ ALLOWED_ORIGINS = undefined
  /\ phase = "idle"
  /\ req = NoReq
  /\ res = NoRes
  /\ clients = NoClients
  /\ now = StartTime
  /\ rateLimit = NoHits

\* GET /posts?page=..&limit=..&category=..&keyword=.. with this Origin
\* header: the cors middleware, then the route or the global error handler.
GetPosts(origin, page, limit, category, keyword) ==
  /\ phase = "idle"
  /\ req' = [NoReq EXCEPT !.route = "/posts", !.origin = origin,
                          !.page = page, !.limit = limit,
                          !.category = category, !.keyword = keyword]
  /\ IF CorsAllows(ALLOWED_ORIGINS, origin)
       THEN /\ res' = PostsHandler(blogPosts, NODE_ENV, page, limit, category, keyword)
            /\ blogPosts' = blogPostsAfterPosts(blogPosts,
                 FilterStep(blogPosts, category, keyword).posts)
       ELSE /\ res' = GlobalErrorHandler(NODE_ENV, "Not allowed by CORS")
            /\ blogPosts' = blogPosts
  /\ phase' = "responded"
  /\ UNCHANGED <<config, clients, limiter>>

\* GET /posts/:id with this Origin header.
GetPostById(origin, id) ==
  /\ phase = "idle"
  /\ req' = [NoReq EXCEPT !.route = "/posts/:id", !.origin = origin, !.id = id]
  /\ res' = IF CorsAllows(ALLOWED_ORIGINS, origin)
              THEN PostByIdHandler(blogPosts, NODE_ENV, id)
              ELSE GlobalErrorHandler(NODE_ENV, "Not allowed by CORS")
  /\ phase' = "responded"
  /\ UNCHANGED <<blogPosts, config, clients, limiter>>

\* The answer has been sent; the server takes the next request.
Done ==
  /\ phase = "responded"
  /\ phase' = "idle"
  /\ req' = NoReq
  /\ res' = NoRes
  /\ UNCHANGED <<blogPosts, config, clients, limiter>>

\* A GET /posts request with a body that is not JSON: express.json passes
\* its SyntaxError to the global error handler, after the cors middleware.
BadJsonBody(origin) ==
  /\ phase = "idle"
  /\ req' = [NoReq EXCEPT !.route = "/posts", !.origin = origin,
                          !.json = "malformed"]
  /\ res' = IF CorsAllows(ALLOWED_ORIGINS, origin)
              THEN GlobalErrorHandler(NODE_ENV, "Unexpected end of JSON input")
              ELSE GlobalErrorHandler(NODE_ENV, "Not allowed by CORS")
  /\ phase' = "responded"
  /\ UNCHANGED <<blogPosts, config, clients, limiter>>

\* The requests of the test suite all carry the default origin.
Next ==
  \/ \E origin \in OriginValues, page \in PageValues, limit \in LimitValues,
        category \in CategoryValues, keyword \in KeywordValues :
       GetPosts(origin, page, limit, category, keyword)
  \/ \E origin \in OriginValues, id \in IdValues : GetPostById(origin, id)
  \/ Done

Spec == Init /\ [][Next]_vars

-----------------------------------------------------------------------------
(* The other revisions of GET /posts *)

\* GET /posts of the refactored app, sent with the default origin.
GetPostsRefactored(page, limit, category, keyword) ==
  /\ phase = "idle"
  /\ req' = [NoReq EXCEPT !.route = "/posts", !.app = "refactored",
                          !.origin = Str(DefaultOrigin),
                          !.page = page, !.limit = limit,
                          !.category = category, !.keyword = keyword]
  /\ res' = RefactoredPostsHandler(blogPosts, NODE_ENV, page, limit, category, keyword)
  /\ phase' = "responded"
  /\ UNCHANGED <<blogPosts, config, clients, limiter>>

\* GET /posts of the earlier revision, sent with the default origin.
GetPostsEarlier(page, limit, category, keyword) ==
  /\ phase = "idle"
  /\ req' = [NoReq EXCEPT !.route = "/posts", !.app = "earlier",
                          !.origin = Str(DefaultOrigin),
                          !.page = page, !.limit = limit,
                          !.category = category, !.keyword = keyword]
  /\ res' = EarlierPostsHandler(blogPosts, page, limit, category, keyword)
  /\ phase' = "responded"
  /\ UNCHANGED <<blogPosts, config, clients, limiter>>

RevisionCollections ==
  { Stored(<<3, 1, 4, 2>>, keep) : keep \in {{}, {2}, {1, 2, 3}} }
  \cup { LongCollection }

RevisionPages ==
  { undefined, Str(<<"0">>), Str(<<"-", "1">>), Str(<<".", "5">>),
    Str(<<"2">>), Str(<<"a", "b">>), Str(<<"1", "0", "0", "0", "0", "0", "1">>) }
RevisionLimits ==
  { undefined, Str(<<"0">>), Str(<<"-", "1">>), Str(<<".", "5">>),
    Str(<<"2">>), Str(<<"a">>), Str(<<"1", "0", "1">>) }
RevisionCategories == { undefined, Str(<<" ", "A", "A">>), Str(<<"A", "A">>) }
RevisionKeywords ==
  { undefined, Str(<<" ">>), Str(<<"a">>), Str(<<" ", "a", "B">>),
    Arr(<<"a", ",", "b">>) }

RevisionInit ==
  /\ blogPosts \in RevisionCollections
  /\ NODE_ENV \in EnvValues
  /\ ALLOWED_ORIGINS = undefined
  /\ phase = "idle"
  /\ req = NoReq
  /\ res = NoRes
  /\ clients = NoClients
  /\ now = StartTime
  /\ rateLimit = NoHits

RevisionNext ==
  \/ \E page \in RevisionPages, limit \in RevisionLimits,
        category \in RevisionCategories, keyword \in RevisionKeywords :
       GetPostsRefactored(page, limit, category, keyword)
  \/ \E page \in RevisionPages, limit \in RevisionLimits,
        category \in RevisionCategories, keyword \in RevisionKeywords :
       GetPostsEarlier(page, limit, category, keyword)
  \/ Done

RevisionSpec == RevisionInit /\ [][RevisionNext]_vars

-----------------------------------------------------------------------------
(* The rate limiter of security-middleware.mjs *)

\* windowMs and max of createRateLimit.
WindowMs    == 15 * 60 * 1000
MaxRequests == 100

\* The clock advances by TickMs, MaxTicks times at most.  (The clock counts
\* milliseconds from StartTime, a stand-in for the epoch time of Date.)
TickMs   == 299500
MaxTicks == 6

\* The handler option of createRateLimit: the 429 answer.  resetTime is a
\* Date; dividing it takes its time value in milliseconds.
RateLimitHandler(resetTime) ==
  [status |-> 429,
   body   |-> [error      |-> "Too many requests",
               message    |-> "Rate limit exceeded. Please try again later.",
               retryAfter |-> MathCeilDiv(resetTime, IntNum(1000))]]

\* The store's count for the client after one more request: a new window
\* starts at the first request and once the window has run out.
Incremented(record, time) ==
  IF record.totalHits = 0 \/ time >= record.resetTime
    THEN [totalHits |-> 1, resetTime |-> time + WindowMs]
    ELSE [record EXCEPT !.totalHits = @ + 1]

RateLimitInit ==
  /\ blogPosts = LongCollection
  /\ NODE_ENV \in EnvValues
  /\ ALLOWED_ORIGINS = undefined
  /\ phase = "idle"
  /\ req = NoReq
  /\ res = NoRes
  /\ clients = NoClients
  /\ now = StartTime
  /\ rateLimit = NoHits

\* Time passes.
Tick ==
  /\ now < StartTime + MaxTicks * TickMs
  /\ now' = now + TickMs
  /\ UNCHANGED <<blogPosts, config, phase, req, res, clients, rateLimit>>

\* A request of the client goes through the limiter: it is counted, then
\* passed on to the routes, or answered 429 once the count exceeds max.
LimitedRequest ==
  /\ phase = "idle"
  /\ rateLimit.totalHits <= MaxRequests + 1
  /\ rateLimit' = Incremented(rateLimit, now)
  /\ IF rateLimit'.totalHits > MaxRequests
       THEN /\ phase' = "responded"
            /\ req' = [NoReq EXCEPT !.route = "/posts"]
            /\ res' = RateLimitHandler(rateLimit'.resetTime)
       ELSE UNCHANGED <<phase, req, res>>
  /\ UNCHANGED <<blogPosts, config, clients, now>>

\* The 429 answer has been sent.
LimitedDone ==
  /\ phase = "responded"
  /\ phase' = "idle"
  /\ req' = NoReq
  /\ res' = NoRes
  /\ UNCHANGED <<blogPosts, config, clients, limiter>>

RateLimitNext == Tick \/ LimitedRequest \/ LimitedDone

RateLimitSpec == RateLimitInit /\ [][RateLimitNext]_vars

-----------------------------------------------------------------------------
(* Requests that overlap in time *)

\* How many clients have a request under way at once.
MaxClients == 2

\* Node runs each handler to its end before it takes the next event, so a
\* request is accepted, then answered in one step, then its answer is read
\* by the client; the steps of different clients interleave freely.
NoClient == [stage |-> "none", req |-> NoReq, res |-> NoRes]

ConcurrentCollections ==
  { Stored(<<1, 2, 3, 4>>, {1, 2, 3}), Stored(<<3, 1, 4, 2>>, {1, 2, 3, 4}) }

ConcurrentRequests ==
  { [NoReq EXCEPT !.route = "/posts", !.origin = Str(DefaultOrigin)],
    [NoReq EXCEPT !.route = "/posts", !.origin = Str(DefaultOrigin),
                  !.category = Str(<<" ", "A", "A">>)],
    [NoReq EXCEPT !.route = "/posts", !.origin = Str(DefaultOrigin),
                  !.page = Str(<<"2">>), !.limit = Str(<<"1">>),
                  !.keyword = Str(<<" ", "a", "B">>)],
    [NoReq EXCEPT !.route = "/posts/:id", !.origin = Str(DefaultOrigin),
                  !.id = Str(<<"1">>)],
    [NoReq EXCEPT !.route = "/posts/:id", !.origin = Str(DefaultOrigin),
                  !.id = Str(<<"a", "b">>)] }

ConcurrentInit ==
  /\ blogPosts \in ConcurrentCollections
  /\ NODE_ENV \in EnvValues
  /\ ALLOWED_ORIGINS = undefined
  /\ phase = "idle"
  /\ req = NoReq
  /\ res = NoRes
  /\ clients = [c \in 1..MaxClients |-> NoClient]
  /\ now = StartTime
  /\ rateLimit = NoHits

\* The request r of client c reaches the server.
Arrive(c, r) ==
  /\ clients[c].stage = "none"
  /\ clients' = [clients EXCEPT ![c] = [stage |-> "pending", req |-> r, res |-> NoRes]]
  /\ UNCHANGED <<blogPosts, config, phase, req, res, limiter>>

\* The server runs the middleware and the route of the request of client c.
Handle(c) ==
  /\ clients[c].stage = "pending"
  /\ LET r == clients[c].req
     IN  IF ~CorsAllows(ALLOWED_ORIGINS, r.origin)
           THEN /\ clients' = [clients EXCEPT ![c].stage = "answered",
                     ![c].res = GlobalErrorHandler(NODE_ENV, "Not allowed by CORS")]
                /\ blogPosts' = blogPosts
         ELSE IF r.route = "/posts"
           THEN /\ clients' = [clients EXCEPT ![c].stage = "answered",
                     ![c].res = PostsHandler(blogPosts, NODE_ENV, r.page, r.limit,
                                             r.category, r.keyword)]
                /\ blogPosts' = blogPostsAfterPosts(blogPosts,
                     FilterStep(blogPosts, r.category, r.keyword).posts)
         ELSE /\ clients' = [clients EXCEPT ![c].stage = "answered",
                   ![c].res = PostByIdHandler(blogPosts, NODE_ENV, r.id)]
              /\ blogPosts' = blogPosts
  /\ UNCHANGED <<config, phase, req, res, limiter>>

\* Client c has read its answer.
Receive(c) ==
  /\ clients[c].stage = "answered"
  /\ clients' = [clients EXCEPT ![c] = NoClient]
  /\ UNCHANGED <<blogPosts, config, phase, req, res, limiter>>

ConcurrentNext ==
  \/ \E c \in 1..MaxClients, r \in ConcurrentRequests : Arrive(c, r)
  \/ \E c \in 1..MaxClients : Handle(c)
  \/ \E c \in 1..MaxClients : Receive(c)

ConcurrentSpec == ConcurrentInit /\ [][ConcurrentNext]_vars

-----------------------------------------------------------------------------
(* The server at its boundary: configurations, origins, values of
   unexpected types *)

\* NODE_ENV unset.
Unset == "(unset)"

BoundaryEnvValues == {"development", "Development", "production", "test", Unset}

BoundaryAllowedValues ==
  { undefined, Str(<<>>), Str(<<"http://a.example">>),
    Str(<<"http://a.example", ",", "http://localhost:3000">>) }

BoundaryOrigins ==
  { undefined, Str(<<>>), Str(DefaultOrigin), Str(<<"http://a.example">>),
    Str(<<"http://malicious-site.com">>) }

\* A well-formed collection, and one with a null entry between records.
BoundaryCollections ==
  { Stored(<<1, 2, 3, 4>>, {1, 2}),
    << CHOOSE p \in PostPool : p.id = 3, Null, CHOOSE p \in PostPool : p.id = 1 >> }

BoundaryPages      == { undefined, Str(<<"2">>) }
BoundaryLimits     == { undefined, Str(<<"a">>) }
BoundaryCategories == { undefined, Str(<<" ", "A", "A">>) }
\* ?keyword=a&keyword=b reaches the handler as the array ['a', 'b'].
BoundaryKeywords ==
  { undefined, Str(<<"a">>), Str(<<" ", "a", "B">>), Arr(<<"a", ",", "b">>) }
BoundaryIds        == { Str(<<"1">>), Str(<<"4">>), Str(<<"a", "b">>) }

BoundaryInit ==
  /\ blogPosts \in BoundaryCollections
  /\ NODE_ENV \in BoundaryEnvValues
  /\ ALLOWED_ORIGINS \in BoundaryAllowedValues
  /\ phase = "idle"
  /\ req = NoReq
  /\ res = NoRes
  /\ clients = NoClients
  /\ now = StartTime
  /\ rateLimit = NoHits

BoundaryNext ==
  \/ \E origin \in BoundaryOrigins, page \in BoundaryPages,
        limit \in BoundaryLimits, category \in BoundaryCategories,
        keyword \in BoundaryKeywords :
       GetPosts(origin, page, limit, category, keyword)
  \/ \E origin \in BoundaryOrigins, id \in BoundaryIds : GetPostById(origin, id)
  \/ \E origin \in BoundaryOrigins : BadJsonBody(origin)
  \/ Done

BoundarySpec == BoundaryInit /\ [][BoundaryNext]_vars

-----------------------------------------------------------------------------
(* Vocabulary of the properties *)

\* A GET /posts request has been answered / answered with 200.
PostsAnswered == phase = "responded" /\ req.route = "/posts"
PostsSuccess  == PostsAnswered /\ res.status = 200

\* The answer is an error answer with this error text.
ErrorIs(text) == "error" \in DOMAIN res.body /\ res.body.error = text

Provided(v) == v # undefined
Numeric(v)  == ~isNaN(Number(v))
\* The numeric value of v is above / below an integer bound.
Above(v, bound) == Numeric(v) /\ Number(v).n > bound * Number(v).d
Below(v, bound) == Numeric(v) /\ Number(v).n < bound * Number(v).d

\* The request carries an oversized page or limit.
Oversized(page, limit) ==
  Above(page, MaxPaginationValue) \/ Above(limit, MaxPaginationValue)

\* The rules of the generic pagination failure.
PageBad(page)       == Provided(page) /\ (~Numeric(page) \/ Below(page, 1))
LimitNotPositive(limit) == Provided(limit) /\ (~Numeric(limit) \/ Below(limit, 1))
LimitExceeds(limit) == Provided(limit) /\ Above(limit, MaxLimit)

\* Trimmed and lower-cased text.
Normal(s) == toLowerCase(trim(s))

CategoryGiven == req.category.t = "string" /\ Normal(req.category.s) # <<>>
KeywordGiven  == req.keyword.t = "string" /\ Len(trim(req.keyword.s)) >= 2

\* The record passes the filters of the answered request.
Passes(post) ==
  /\ CategoryGiven => Normal(post.category) = Normal(req.category.s)
  /\ KeywordGiven =>
       \E f \in {"title", "description", "content", "category"} :
         includes(toLowerCase(post[f]), Normal(req.keyword.s))

\* The filtered sequence of the answered request.
Filtered == SelectSeq(blogPosts, Passes)

\* The 0-based positions i of the filtered sequence with
\* (P-1)*L <= i < (P-1)*L + L, for P = currentPage and L = limit.
Window ==
  LET P == res.body.currentPage
      L == res.body.limit
  IN  { i \in 0..(Len(Filtered) - 1) :
          /\ (P.n - P.d) * L.n <= i * P.d * L.d
          /\ i * P.d * L.d < P.n * L.n }

WindowPosts ==
  IF Window = {} THEN <<>>
  ELSE LET lo == CHOOSE i \in Window : \A j \in Window : i <= j
           hi == CHOOSE i \in Window : \A j \in Window : j <= i
       IN  SubSeq(Filtered, lo + 1, hi + 1)

-----------------------------------------------------------------------------
(* Properties *)

\* C1: no GET /posts or GET /posts/:id request, accepted or rejected,
\* changes the shared collection: every step leaves blogPosts with the same
\* records in the same order.
C1_CollectionUnchanged == [][blogPosts' = blogPosts]_vars

\* A filtered listing has been served from a collection of several records.
C1_Witness ==
  /\ PostsSuccess
  /\ CategoryGiven /\ KeywordGiven
  /\ Len(blogPosts) = MaxPosts
  /\ res.body.totalPosts < Len(blogPosts)

\* C2: the posts of a success answer are exactly the records of the
\* filtered sequence at the positions [(P-1)*L, (P-1)*L + L), clipped to
\* its length, in their order.
C2_PageIsWindow == PostsSuccess => res.body.posts = WindowPosts

\* C3: totalPosts counts the records that pass the filters, totalPages is
\* the least integer T with T * limit >= totalPosts, and no post means no
\* page.
C3_Totals ==
  PostsSuccess =>
    LET N == res.body.totalPosts
        T == res.body.totalPages
        L == res.body.limit
    IN  /\ N = Cardinality({i \in 1..Len(blogPosts) : Passes(blogPosts[i])})
        /\ T \in Nat
        /\ T * L.n >= N * L.d
        /\ (T - 1) * L.n < N * L.d
        /\ (N = 0 => T = 0)

\* A filter left two of three records and they fill more than one page.
C3_Witness ==
  /\ PostsSuccess
  /\ CategoryGiven
  /\ Len(blogPosts) = 3
  /\ res.body.totalPosts = 2
  /\ res.body.totalPages = 2

\* C4: a success answer holds at most limit posts, and exactly limit posts
\* on every page before the last one.
C4_PageLength ==
  PostsSuccess =>
    LET P   == res.body.currentPage
        L   == res.body.limit
        len == Len(res.body.posts)
    IN  (P.n >= P.d /\ L.n >= L.d /\ L.n <= MaxLimit * L.d) =>
          /\ len * L.d <= L.n
          /\ (P.n < res.body.totalPages * P.d => len * L.d = L.n)

\* C5: a request whose only remarkable feature is a page number within
\* 1..1,000,000 that lies beyond the last page is answered 200, with no
\* posts and with currentPage equal to the requested page.
C5_BeyondLastPage ==
  /\ ( /\ PostsAnswered
       /\ Provided(req.page) /\ ~PageBad(req.page)
       /\ ~Above(req.page, MaxPaginationValue)
       /\ ~LimitNotPositive(req.limit) /\ ~LimitExceeds(req.limit)
       /\ (KeywordGiven \/ ~Truthy(req.keyword)) )
     => res.status = 200
  /\ ( /\ PostsSuccess
       /\ Provided(req.page)
       /\ Above(req.page, res.body.totalPages) )
     => /\ res.body.posts = <<>>
        /\ res.body.currentPage = Number(req.page)

\* C6: hasNextPage holds exactly when (P-1)*L + L < N and hasPreviousPage
\* exactly when (P-1)*L > 0; nextPage is present exactly with hasNextPage
\* and is P+1, previousPage exactly with hasPreviousPage and is P-1.
C6_Neighbours ==
  PostsSuccess =>
    LET P == res.body.currentPage
        L == res.body.limit
        N == res.body.totalPosts
        b == res.body
    IN  /\ b.hasNextPage <=> (P.n * L.n < N * P.d * L.d)
        /\ b.hasPreviousPage <=> ((P.n - P.d) * L.n > 0)
        /\ ("nextPage" \in DOMAIN b) <=> b.hasNextPage
        /\ ("previousPage" \in DOMAIN b) <=> b.hasPreviousPage
        /\ b.hasNextPage =>
             b.nextPage.k = "fin" /\ b.nextPage.n * P.d = (P.n + P.d) * b.nextPage.d
        /\ b.hasPreviousPage =>
             b.previousPage.k = "fin"
               /\ b.previousPage.n * P.d = (P.n - P.d) * b.previousPage.d

\* A middle page: it has a next and a previous page.
C6_Witness ==
  /\ PostsSuccess
  /\ res.body.hasNextPage /\ res.body.hasPreviousPage
  /\ res.body.nextPage = IntNum(3) /\ res.body.previousPage = IntNum(1)

C8_DetailsComplete ==
  (PostsAnswered /\ ErrorIs("Invalid pagination parameters")) =>
    LET d == res.body.details
    IN  /\ { d[i] : i \in 1..Len(d) } =
             (IF PageBad(req.page)
                THEN {"Page must be a positive number"} ELSE {})
             \cup
             (IF LimitNotPositive(req.limit)
                THEN {"Limit must be a positive number"} ELSE {})
             \cup
             (IF LimitExceeds(req.limit)
                THEN {"Limit cannot exceed 100"} ELSE {})
        /\ \A i, j \in 1..Len(d) : d[i] = d[j] => i = j

\* Page and limit were both bad and both messages are reported.
C8_Witness ==
  /\ PostsAnswered
  /\ PageBad(req.page) /\ LimitExceeds(req.limit)
  /\ ErrorIs("Invalid pagination parameters")
  /\ Len(res.body.details) = 2

\* C9: an oversized page or limit is answered with the error "Pagination
\* values too large" and nothing else in the body, whatever the other
\* pagination parameter and the keyword are.
C9_OversizedFirst ==
  (PostsAnswered /\ Oversized(req.page, req.limit)) =>
    res.body = [error |-> "Pagination values too large"]

\* The page is oversized while the limit is non-numeric and the keyword too
\* short.
C9_Witness ==
  /\ PostsAnswered
  /\ Above(req.page, MaxPaginationValue)
  /\ ~Numeric(req.limit)
  /\ Len(trim(req.keyword.s)) = 1
  /\ res.body = [error |-> "Pagination values too large"]

\* The answers of the handler, over every collection and environment, to
\* the requests that break a generic pagination rule and carry no oversized
\* value.
GenericFailures ==
  { PostsHandler(c, env, pl[1], pl[2], undefined, undefined) :
      c \in Collections, env \in EnvValues,
      pl \in { q \in PageValues \X LimitValues :
                 /\ ~Oversized(q[1], q[2])
                 /\ PageBad(q[1]) \/ LimitNotPositive(q[2]) \/ LimitExceeds(q[2]) } }

PaginationValid ==
  /\ ~Oversized(req.page, req.limit)
  /\ ~PageBad(req.page)
  /\ ~LimitNotPositive(req.limit)
  /\ ~LimitExceeds(req.limit)

\* The keyword is absent, empty or only white space.
KeywordBlank ==
  \/ req.keyword = undefined
  \/ req.keyword.t = "string" /\ trim(req.keyword.s) = <<>>

\* C11: with valid pagination parameters, a keyword of exactly one
\* character after trimming is answered 400 "Keyword must be at least 2
\* characters long", whatever the category and the collection.
C11_ShortKeyword ==
  ( /\ PostsAnswered
    /\ PaginationValid
    /\ req.keyword.t = "string" /\ Len(trim(req.keyword.s)) = 1 )
  => /\ res.status = 400
     /\ res.body = [error |-> "Keyword must be at least 2 characters long"]

\* A one-character keyword came with a category that matches records.
C11_Witness ==
  /\ PostsAnswered
  /\ PaginationValid
  /\ req.keyword.t = "string" /\ Len(trim(req.keyword.s)) = 1
  /\ CategoryGiven
  /\ \E i \in 1..Len(blogPosts) : Passes(blogPosts[i])
  /\ res.status = 400

\* C12: an absent, empty or white-space-only keyword is never an error: the
\* request is answered 200, with the answer of the same request without a
\* keyword.
C12_BlankKeyword ==
  (PostsAnswered /\ PaginationValid /\ KeywordBlank) =>
    /\ res.status = 200
    /\ res = PostsHandler(blogPosts, NODE_ENV, req.page, req.limit,
                          req.category, undefined)

\* The category / keyword condition of the answered request on one record,
\* in the words of the interface description.
CategoryEquals(post) == Normal(post.category) = Normal(req.category.s)
KeywordWithin(post) ==
  \E f \in {"title", "description", "content", "category"} :
    includes(toLowerCase(post[f]), Normal(req.keyword.s))

\* The whole filtered sequence fits in the first page of the answer.
WholeOnFirstPage(n) ==
  /\ res.body.currentPage = IntNum(1)
  /\ res.body.limit.d = 1
  /\ res.body.limit.n >= n

Returned == { res.body.posts[i] : i \in 1..Len(res.body.posts) }

\* C13: when only the category filters, the filtered result is exactly the
\* records whose trimmed lower-cased category equals the trimmed lower-cased
\* supplied category (none of them: totalPosts 0 and no posts); an absent,
\* empty or white-space-only category filters nothing.
C13_CategoryExact ==
  (PostsSuccess /\ ~KeywordGiven) =>
    LET sel == IF CategoryGiven THEN SelectSeq(blogPosts, CategoryEquals)
                                ELSE blogPosts
    IN  /\ res.body.totalPosts = Len(sel)
        /\ \A p \in Returned : \E i \in 1..Len(sel) : sel[i] = p
        /\ WholeOnFirstPage(Len(sel)) => res.body.posts = sel
        /\ sel = <<>> => res.body.totalPosts = 0 /\ res.body.posts = <<>>

\* The category kept a record whose stored category is written differently
\* and dropped another record.
C13_Witness ==
  /\ PostsSuccess /\ ~KeywordGiven /\ CategoryGiven
  /\ \E p \in Returned : p.category # req.category.s /\ CategoryEquals(p)
  /\ \E i \in 1..Len(blogPosts) : ~CategoryEquals(blogPosts[i])

\* C14: with a keyword of two or more characters after trimming, a record is
\* in the filtered result iff the trimmed lower-cased keyword is a substring
\* of its lower-cased title, description, content or category, and it passes
\* the category filter.
C14_KeywordExact ==
  (PostsSuccess /\ KeywordGiven) =>
    LET sel == SelectSeq(blogPosts,
                 LAMBDA p : KeywordWithin(p) /\ (CategoryGiven => CategoryEquals(p)))
    IN  /\ res.body.totalPosts = Len(sel)
        /\ \A p \in Returned : KeywordWithin(p)
        /\ WholeOnFirstPage(Len(sel)) => res.body.posts = sel

\* The keyword kept a record that holds it in its content only, next to
\* records that hold it in another field.
C14_Witness ==
  /\ PostsSuccess /\ KeywordGiven
  /\ Len(res.body.posts) >= 2
  /\ \E p \in Returned :
       /\ includes(toLowerCase(p.content), Normal(req.keyword.s))
       /\ \A f \in {"title", "description", "category"} :
            ~includes(toLowerCase(p[f]), Normal(req.keyword.s))

\* C15: category and keyword compose conjunctively: every returned record
\* satisfies both, every record satisfying both is counted in totalPosts,
\* and a keyword found only in records of other categories gives an empty
\* result.
C15_Conjunctive ==
  (PostsSuccess /\ CategoryGiven /\ KeywordGiven) =>
    LET both == { i \in 1..Len(blogPosts) :
                    CategoryEquals(blogPosts[i]) /\ KeywordWithin(blogPosts[i]) }
    IN  /\ \A p \in Returned : CategoryEquals(p) /\ KeywordWithin(p)
        /\ res.body.totalPosts = Cardinality(both)
        /\ both = {} => res.body.posts = <<>>

\* The category matches a record, the keyword matches a record of another
\* category, and nothing is returned.
C15_Witness ==
  /\ PostsSuccess /\ CategoryGiven /\ KeywordGiven
  /\ \E i \in 1..Len(blogPosts) : CategoryEquals(blogPosts[i])
  /\ \E i \in 1..Len(blogPosts) :
       KeywordWithin(blogPosts[i]) /\ ~CategoryEquals(blogPosts[i])
  /\ res.body.totalPosts = 0
  /\ res.body.posts = <<>>

\* Other spellings of a request value that is non-empty after trimming: the
\* trimmed lower-cased one, and the upper-cased one inside white space.
UpperCased(s) ==
  [i \in 1..Len(s) |->
     CASE s[i] = "a" -> "A" [] s[i] = "b" -> "B" [] s[i] = "c" -> "C"
       [] OTHER -> s[i]]
Spellings(v) ==
  IF v.t = "string" /\ trim(v.s) # <<>>
    THEN { Str(Normal(v.s)), Str(<<" ">> \o UpperCased(v.s) \o <<" ">>) }
    ELSE { v }

\* C16: replacing a category or keyword that is non-empty after trimming by
\* a spelling that differs only in letter case or in surrounding white space
\* gives the same outcome (status, totalPosts, posts), and the records
\* returned are the stored records, with their values as stored.
C16_SpellingInsensitive ==
  PostsAnswered =>
    /\ \A c2 \in Spellings(req.category), k2 \in Spellings(req.keyword) :
         LET r2 == PostsHandler(blogPosts, NODE_ENV, req.page, req.limit, c2, k2)
         IN  /\ r2.status = res.status
             /\ res.status = 200 =>
                  /\ r2.body.totalPosts = res.body.totalPosts
                  /\ r2.body.posts = res.body.posts
    /\ res.status = 200 =>
         \A p \in Returned : \E i \in 1..Len(blogPosts) : blogPosts[i] = p

\* A category and a keyword written with capitals and white space returned
\* a record whose stored category is neither the supplied nor the
\* normalized text.
C16_Witness ==
  /\ PostsSuccess /\ CategoryGiven /\ KeywordGiven
  /\ req.category.s # Normal(req.category.s)
  /\ req.keyword.s # Normal(req.keyword.s)
  /\ \E p \in Returned :
       /\ p.category # Normal(p.category)
       /\ p.category # req.category.s

\* C17: in every success answer of GET /posts, currentPage >= 1 and
\* 1 <= limit <= 100; without page currentPage is 1, without limit limit is
\* 6, and a request without any parameter returns min(6, collection size)
\* records.
C17_Defaults ==
  PostsSuccess =>
    /\ ~NumLt(res.body.currentPage, IntNum(1))
    /\ ~NumLt(res.body.limit, IntNum(1))
    /\ ~NumGt(res.body.limit, IntNum(100))
    /\ req.page = undefined => res.body.currentPage = IntNum(1)
    /\ req.limit = undefined => res.body.limit = IntNum(6)
    /\ (req.page = undefined /\ req.limit = undefined
          /\ req.category = undefined /\ req.keyword = undefined)
       => Len(res.body.posts) = Min(6, Len(blogPosts))

\* A request without parameters on a collection of more than six records
\* returned six of them.
C17_Witness ==
  /\ PostsSuccess
  /\ req.page = undefined /\ req.limit = undefined
  /\ req.category = undefined /\ req.keyword = undefined
  /\ Len(blogPosts) > 6
  /\ Len(res.body.posts) = 6
  /\ res.body.currentPage = IntNum(1) /\ res.body.limit = IntNum(6)

\* C18: every page and limit GET /posts accepts is a positive integer: in
\* every success answer currentPage and limit are integers and
\* (currentPage - 1) * limit is an integer index.
C18_IntegerPaging ==
  PostsSuccess =>
    LET P == res.body.currentPage
        L == res.body.limit
    IN  /\ P.d = 1 /\ P.n >= 1
        /\ L.d = 1 /\ L.n >= 1
        /\ ((P.n - P.d) * L.n) % (P.d * L.d) = 0

PostAnswered == phase = "responded" /\ req.route = "/posts/:id"

\* C19: GET /posts/:id answers 400 "Invalid post ID" whenever the id does
\* not parse as a number, is zero or negative, or is above 1,000,000; the
\* collection is not searched and no 404 is returned.
C19_InvalidId ==
  ( /\ PostAnswered
    /\ \/ ~Numeric(req.id)
       \/ ~Above(req.id, 0)
       \/ Above(req.id, MaxPostId) )
  => res.status = 400 /\ ErrorIs("Invalid post ID")

\* The id is a run of digits with a value from 1 to 1,000,000.
WellFormedId ==
  /\ req.id.t = "string" /\ req.id.s # <<>> /\ AllDigits(req.id.s)
  /\ DigitsValue(req.id.s) \in 1..MaxPostId

\* C20: for a well-formed id from 1 to 1,000,000, GET /posts/:id answers 200
\* with exactly the fields of the first record with that id plus
\* requestedAt when there is one, and otherwise 404 "Blog post not found"
\* with requestedId equal to the requested id.
C20_Lookup ==
  (PostAnswered /\ WellFormedId) =>
    LET n    == DigitsValue(req.id.s)
        hits == { i \in 1..Len(blogPosts) : blogPosts[i].id = n }
    IN  IF hits # {}
          THEN LET post == blogPosts[CHOOSE i \in hits : \A j \in hits : i <= j]
               IN  /\ res.status = 200
                   /\ DOMAIN res.body = DOMAIN post \cup {"requestedAt"}
                   /\ \A f \in DOMAIN post : res.body[f] = post[f]
          ELSE /\ res.status = 404
               /\ DOMAIN res.body = {"error", "requestedId"}
               /\ res.body.error = "Blog post not found"
               /\ res.body.requestedId = IntNum(n)

\* The record asked for was found at a position other than its id.
C20_Witness ==
  /\ PostAnswered /\ WellFormedId
  /\ res.status = 200
  /\ res.body.id = DigitsValue(req.id.s)
  /\ \E i \in 1..Len(blogPosts) :
       /\ blogPosts[i].id = res.body.id /\ i # res.body.id
       /\ res.body.title = blogPosts[i].title

\* The id is a run of digits.
PlainInteger(v) == v.t = "string" /\ v.s # <<>> /\ AllDigits(v.s)

\* C21: for every id that GET /posts/:id takes as numeric but that is not a
\* plain integer (1.5, say), the range check and the lookup use the integer
\* part of the id's numeric value: /posts/1.5 answers with the record of
\* id 1.
C21_DecimalId ==
  (PostAnswered /\ Numeric(req.id) /\ ~PlainInteger(req.id)) =>
    LET t    == ToInteger(Number(req.id))
        hits == { i \in 1..Len(blogPosts) : blogPosts[i].id = t }
    IN  IF t < 1 \/ t > MaxPostId
          THEN res.status = 400 /\ ErrorIs("Invalid post ID")
        ELSE IF hits # {}
          THEN res.status = 200 /\ res.body.id = t
        ELSE res.status = 404 /\ res.body.requestedId = IntNum(t)

\* The pieces of a comma-separated text.
Pieces(s) ==
  LET seps == {0, Len(s) + 1} \cup { i \in 1..Len(s) : s[i] = "," }
  IN  { SubSeq(s, i + 1, j - 1) :
          <<i, j>> \in { pr \in seps \X seps :
                          /\ pr[1] < pr[2]
                          /\ ~\E k \in seps : pr[1] < k /\ k < pr[2] } }

\* The allow-list of the configuration.
AllowList ==
  IF ALLOWED_ORIGINS = undefined THEN {DefaultOrigin} ELSE Pieces(ALLOWED_ORIGINS.s)

\* The answered request carries a non-empty Origin outside the allow-list.
OriginRefused ==
  req.origin.t = "string" /\ req.origin.s # <<>> /\ req.origin.s \notin AllowList

\* The route handler of GET /posts ran for the answered request.
PostsHandled == PostsAnswered /\ ~OriginRefused /\ req.json = "none"

\* The handler of GET /posts meets a value it cannot work on: a keyword
\* that is not a string, or a null entry of the collection under a filter.
Raises ==
  \/ req.keyword.t = "array"
  \/ Malformed(blogPosts) /\ (CategoryGiven \/ KeywordGiven)

\* C22: an exception thrown while GET /posts validates, filters or
\* paginates is caught and answered 500 "Internal server error", never
\* with a validation status, and the server goes on to take the next
\* request with the same collection and configuration.
C22_ExceptionsCaught ==
  /\ []( (PostsHandled /\ PaginationValid /\ Raises) =>
           /\ res.status = 500
           /\ ErrorIs("Internal server error") )
  /\ [][ (phase = "responded" /\ res.status = 500) =>
           /\ phase' = "idle"
           /\ blogPosts' = blogPosts
           /\ NODE_ENV' = NODE_ENV
           /\ ALLOWED_ORIGINS' = ALLOWED_ORIGINS ]_vars

\* A keyword that arrived as an array was answered 500.
C22_Witness ==
  /\ PostsHandled /\ PaginationValid
  /\ req.keyword.t = "array"
  /\ res.status = 500

\* The messages of the exceptions the handlers can meet.
ExceptionMessages ==
  { "keyword.trim is not a function",
    "Cannot read properties of null (reading 'category')",
    "Cannot read properties of null (reading 'title')",
    "Cannot read properties of null (reading 'id')",
    "Unexpected end of JSON input" }

\* C23: a 500 answer of GET /posts, GET /posts/:id or the global error
\* handler carries the exception's message only when NODE_ENV is exactly
\* "development"; in every other configuration, NODE_ENV unset included,
\* the message is "Something went wrong".
C23_MessageOnlyInDevelopment ==
  (phase = "responded" /\ res.status = 500) =>
    IF NODE_ENV = "development"
      THEN res.body.message \in ExceptionMessages
      ELSE res.body.message = "Something went wrong"

\* GET /posts/:id met a null entry while NODE_ENV was unset.
C23_Witness ==
  /\ PostAnswered
  /\ NODE_ENV = Unset
  /\ res.status = 500
  /\ res.body.message = "Something went wrong"

\* The answer of the route handler of the answered request.
RouteAnswer ==
  IF req.route = "/posts"
    THEN PostsHandler(blogPosts, NODE_ENV, req.page, req.limit,
                      req.category, req.keyword)
    ELSE PostByIdHandler(blogPosts, NODE_ENV, req.id)

CorsError ==
  [status |-> 403,
   body   |-> [error |-> "CORS error", message |-> "Origin not allowed"]]

Alone(posts, r) ==
  IF r.route = "/posts"
    THEN PostsHandler(posts, NODE_ENV, r.page, r.limit, r.category, r.keyword)
    ELSE PostByIdHandler(posts, NODE_ENV, r.id)

EarlierAnswered == PostsAnswered /\ req.app = "earlier"

\* A page or limit the earlier revision does not report: absent, empty, or
\* numeric.
EarlierTakes(v) == ~Truthy(v) \/ Numeric(v)

\* C26: in the earlier revision of GET /posts a numeric limit of 0 is
\* answered 200 with limit 6 and at most 6 posts; more generally a numeric
\* page or limit below 1 is replaced by 1 or by the default, not reported
\* as invalid.
C26_EarlierBelowOne ==
  ( /\ EarlierAnswered
    /\ EarlierTakes(req.page) /\ EarlierTakes(req.limit)
    /\ ~Above(req.page, MaxPaginationValue)
    /\ req.category.t # "array" /\ req.keyword.t # "array" )
  => /\ res.status = 200
     /\ (Truthy(req.limit) /\ Number(req.limit) = IntNum(0)) =>
          /\ res.body.limit = IntNum(6)
          /\ Len(res.body.posts) <= 6
     /\ Below(req.limit, 1) => res.body.limit \in {IntNum(1), IntNum(6)}
     /\ Below(req.page, 1) => res.body.currentPage = IntNum(1)

\* limit=0 on a collection of more than six records returned six of them
\* with limit 6.
C26_Witness ==
  /\ EarlierAnswered
  /\ req.limit = Str(<<"0">>)
  /\ Len(blogPosts) > 6
  /\ res.status = 200
  /\ res.body.limit = IntNum(6)
  /\ Len(res.body.posts) = 6

\* C28: the refactored /posts handler (filterByCategory, filterByKeyword,
\* createPaginationResult) gives the status and body of the inline handler
\* for every page, limit, category and keyword over the same collection.
C28_RefactoredSame ==
  (PostsAnswered /\ req.app = "refactored") =>
    res = PostsHandler(blogPosts, NODE_ENV, req.page, req.limit,
                       req.category, req.keyword)

\* C27: when the rate limiter answers 429, retryAfter is the number of
\* seconds left until the client's window resets, rounded up.
C27_RetryAfterSeconds ==
  (phase = "responded" /\ res.status = 429) =>
    res.body.retryAfter = -((-(rateLimit.resetTime - now)) \div 1000)

\* The query text of the page number p, 1 <= p <= 9.
PageText(p) == Str(<< CHOOSE c \in Digits : DigitVal[c] = p >>)

\* The posts of page p of the answered request's category, keyword and
\* limit.
PostsOfPage(p) ==
  PostsHandler(blogPosts, NODE_ENV, PageText(p), req.limit,
               req.category, req.keyword).body.posts

\* C29: for a category, a keyword and an integer limit, the pages 1 to
\* totalPages partition the filtered sequence: their posts, concatenated in
\* order, are the filtered sequence, and none of these pages is empty.
C29_PagesPartition ==
  (PostsSuccess /\ req.page = undefined /\ res.body.limit.d = 1) =>
    LET T == res.body.totalPages
        Cat[p \in 0..T] == IF p = 0 THEN <<>> ELSE Cat[p - 1] \o PostsOfPage(p)
    IN  /\ T <= 9
        /\ PostsOfPage(1) = res.body.posts
        /\ Cat[T] = Filtered
        /\ \A p \in 1..T : PostsOfPage(p) # <<>>

\* Seven records in pages of two: four pages, the last one with one record.
C29_Witness ==
  /\ PostsSuccess /\ req.page = undefined
  /\ res.body.limit = IntNum(2)
  /\ res.body.totalPosts = 7
  /\ res.body.totalPages = 4
  /\ Len(PostsOfPage(4)) = 1

\* C30: in a success answer with integer page and limit, hasNextPage holds
\* iff currentPage < totalPages and hasPreviousPage iff currentPage > 1;
\* so nextPage, when present, is at most totalPages, and previousPage, when
\* present, is at least 1.
C30_NeighbourFlags ==
  (PostsSuccess /\ res.body.currentPage.d = 1 /\ res.body.limit.d = 1) =>
    LET b == res.body
        P == b.currentPage.n
    IN  /\ b.hasNextPage <=> P < b.totalPages
        /\ b.hasPreviousPage <=> P > 1
        /\ "nextPage" \in DOMAIN b =>
             ~NumGt(b.nextPage, IntNum(b.totalPages))
        /\ "previousPage" \in DOMAIN b =>
             ~NumLt(b.previousPage, IntNum(1))

\* The page before the last one: its next page is the last page.
C30_Witness ==
  /\ PostsSuccess
  /\ res.body.currentPage = IntNum(2) /\ res.body.limit = IntNum(1)
  /\ res.body.totalPages = 3
  /\ res.body.hasNextPage /\ res.body.hasPreviousPage
  /\ res.body.nextPage = IntNum(3)

====
